---- MODULE Spec2Model ----
(***************************************************************************)
(* go-scc: the facades BackupService, CommonService and HAService over a   *)
(* shared HTTP client.  Every facade method builds one request through a   *)
(* builder of the client (NewRequest, NewShadowRequest, NewUploadRequest), *)
(* hands it to the client's Do and turns Do's answer into its return       *)
(* values.  The client itself and the remote server are collaborators:     *)
(* their answers are chosen nondeterministically, and every call made to   *)
(* them is recorded per invocation in log, as a recording stub would.      *)
(*                                                                         *)
(* Go values: a string is a TLA+ string; a byte text (request or response  *)
(* body, buffer contents, error message) is a sequence of string tokens;   *)
(* a pointer or an error is <<>> (nil) or <<v>>; a struct is a record      *)
(* whose fields carry the Go field names.                                  *)
(***************************************************************************)
EXTENDS Integers, Sequences, FiniteSets, TLC

\* Number of callers that may have a facade call in flight at once.
NumCallers == 2

Callers == 1..NumCallers

\* The single caller of the sequential specification.
SeqCallers == {1}

VARIABLES
  pc,      \* pc[c]: "idle", "built" (builder returned a request),
           \*        "executed" (Do returned), "done" (the method returned)
  op,      \* op[c]: name of the facade method c is in (or last completed)
  args,    \* args[c]: its arguments
  req,     \* req[c]: the method's local req
  resp,    \* resp[c]: the method's local resp
  err,     \* err[c]: the method's local err
  heap,    \* heap[a]: the destination object allocated at address a
  disk,    \* disk[c]: contents of the destination file c passes to CreateBackup
  ret,     \* ret[c]: [result, resp, err] returned by c's last completed call
  log,     \* log[c]: the collaborator calls of c's current invocation, in order
  server,  \* stub server: the stored master configuration document
  lastPut  \* the MasterConfiguration sent by the last PUT the stub stored

vars == <<pc, op, args, req, resp, err, heap, disk, ret, log, server, lastPut>>

-----------------------------------------------------------------------------
(* strconv.Itoa / Atoi over decimal digit tokens *)

Digits == <<"0", "1", "2", "3", "4", "5", "6", "7", "8", "9">>

RECURSIVE Itoa(_)
Itoa(n) ==
  IF n < 0 THEN <<"-">> \o Itoa(0 - n)
  ELSE IF n < 10 THEN <<Digits[n + 1]>>
  ELSE Itoa(n \div 10) \o <<Digits[(n % 10) + 1]>>

IsDigit(t) == \E i \in 1..10 : Digits[i] = t

DigitVal(t) == (CHOOSE i \in 1..10 : Digits[i] = t) - 1

IsNumber(toks) ==
  /\ Len(toks) >= 1
  /\ \A i \in 1..Len(toks) : IsDigit(toks[i])

RECURSIVE Atoi(_)
Atoi(toks) ==
  IF Len(toks) = 0 THEN 0
  ELSE 10 * Atoi(SubSeq(toks, 1, Len(toks) - 1)) + DigitVal(toks[Len(toks)])

\* strings.Contains on token texts: sub occurs contiguously in text.
Contains(text, sub) ==
  \E i \in 1..(Len(text) - Len(sub) + 1) :
    SubSeq(text, i, i + Len(sub) - 1) = sub

-----------------------------------------------------------------------------
(* The record types and their json tags.  A nested object is flattened to *)
(* a dotted key (ha.role, _links.self.href).                              *)

MasterConfigurationFields ==
  << [name |-> "HAEnabled", tag |-> "haEnabled", type |-> "bool"],
     [name |-> "AllowedShadowHost", tag |-> "allowedShadowHost", type |-> "string"] >>

MasterStateFields ==
  << [name |-> "State", tag |-> "state", type |-> "string"],
     [name |-> "ShadowHost", tag |-> "shadowHost", type |-> "string"] >>

ShadowConfigurationFields ==
  << [name |-> "MasterHost", tag |-> "masterHost", type |-> "string"],
     [name |-> "MasterPort", tag |-> "masterPort", type |-> "string"],
     [name |-> "CheckIntervalInSeconds", tag |-> "checkIntervalInSeconds", type |-> "int"],
     [name |-> "TakeoverDelayInSeconds", tag |-> "takeoverDelayInSeconds", type |-> "int"],
     [name |-> "OwnHost", tag |-> "ownHost", type |-> "string"],
     [name |-> "ConnectTimeoutInMillis", tag |-> "connectTimeoutInMillis", type |-> "int"],
     [name |-> "RequestTimeoutInMillis", tag |-> "requestTimeoutInMillis", type |-> "int"],
     [name |-> "LinksSelfHref", tag |-> "_links.self.href", type |-> "string"],
     [name |-> "LinksStateHref", tag |-> "_links.state.href", type |-> "string"] >>

ShadowStateFields ==
  << [name |-> "State", tag |-> "state", type |-> "string"],
     [name |-> "OwnHosts", tag |-> "ownHosts", type |-> "string"],
     [name |-> "StateMessage", tag |-> "stateMessage", type |-> "string"],
     [name |-> "MasterVersions", tag |-> "masterVersions", type |-> "string"] >>

CommonPropertiesFields ==
  << [name |-> "HaRole", tag |-> "ha.role", type |-> "string"],
     [name |-> "Description", tag |-> "description", type |-> "string"] >>

VersionFields ==
  << [name |-> "Version", tag |-> "version", type |-> "string"] >>

PasswordBodyFields ==
  << [name |-> "Password", tag |-> "password", type |-> "string"] >>

DescriptionBodyFields ==
  << [name |-> "Description", tag |-> "description", type |-> "string"] >>

OpBodyFields ==
  << [name |-> "Op", tag |-> "op", type |-> "string"] >>

ShadowOpBodyFields ==
  << [name |-> "Op", tag |-> "op", type |-> "string"],
     [name |-> "User", tag |-> "user", type |-> "string"],
     [name |-> "Password", tag |-> "password", type |-> "string"] >>

\* The fields of struct type T, in declaration order.
Fields(T) ==
  CASE T = "MasterConfiguration" -> MasterConfigurationFields
    [] T = "MasterState" -> MasterStateFields
    [] T = "ShadowConfiguration" -> ShadowConfigurationFields
    [] T = "ShadowState" -> ShadowStateFields
    [] T = "CommonProperties" -> CommonPropertiesFields
    [] T = "Version" -> VersionFields
    [] T = "struct{Password}" -> PasswordBodyFields
    [] T = "struct{Description}" -> DescriptionBodyFields
    [] T = "struct{Op}" -> OpBodyFields
    [] T = "struct{Op,User,Password}" -> ShadowOpBodyFields

FieldNames(T) == { Fields(T)[i].name : i \in 1..Len(Fields(T)) }

FieldOf(T, n) ==
  LET F == Fields(T) IN F[CHOOSE i \in 1..Len(F) : F[i].name = n]

ZeroOf(type) ==
  CASE type = "bool" -> FALSE
    [] type = "int" -> 0
    [] type = "string" -> ""

\* new(T): the zero value of the struct type.
Zero(T) == [n \in FieldNames(T) |-> ZeroOf(FieldOf(T, n).type)]

-----------------------------------------------------------------------------
(* JSON, as the client's builder encodes a body and its Do decodes one.   *)
(* A body text is a sequence of chunks, each a sequence of tokens.  A     *)
(* JSON object has one chunk per member: quote key quote ":" value, where *)
(* a string value is quote s quote, a bool is true or false and an int    *)
(* its decimal digits.                                                    *)

Quote == "\""

EncodeScalar(type, v) ==
  CASE type = "bool" -> IF v THEN <<"true">> ELSE <<"false">>
    [] type = "int" -> Itoa(v)
    [] type = "string" -> <<Quote, v, Quote>>

\* json.Marshal of struct value v of type T: its fields in declaration order,
\* each under its tag.
Marshal(T, v) ==
  LET F == Fields(T)
  IN [i \in 1..Len(F) |->
        <<Quote, F[i].tag, Quote, ":">> \o EncodeScalar(F[i].type, v[F[i].name])]

IsMember(m) ==
  /\ Len(m) >= 5
  /\ m[1] = Quote
  /\ m[3] = Quote
  /\ m[4] = ":"

ScalarOk(type, val) ==
  CASE type = "bool" -> val \in {<<"true">>, <<"false">>}
    [] type = "int" -> IsNumber(val)
    [] type = "string" -> Len(val) = 3 /\ val[1] = Quote /\ val[3] = Quote

DecodeScalar(type, val) ==
  CASE type = "bool" -> (val = <<"true">>)
    [] type = "int" -> Atoi(val)
    [] type = "string" -> val[2]

\* json decoding of text into a value of type T that starts as `into`:
\* fields the text does not mention keep their value, members of unknown
\* keys are skipped, the last member of a key wins; a text that is no
\* object or a value of the wrong kind is an error.
Unmarshal(T, text, into) ==
  LET F == Fields(T)
      value(i) == SubSeq(text[i], 5, Len(text[i]))
      hits(k) == { i \in 1..Len(text) : text[i][2] = F[k].tag }
      last(k) == CHOOSE i \in hits(k) : \A j \in hits(k) : j <= i
      wellFormed == \A i \in 1..Len(text) : IsMember(text[i])
      typed == \A k \in 1..Len(F) : \A i \in hits(k) : ScalarOk(F[k].type, value(i))
  IN IF ~wellFormed \/ ~typed THEN [val |-> into, ok |-> FALSE]
     ELSE [val |-> [n \in DOMAIN into |->
                      LET k == CHOOSE j \in 1..Len(F) : F[j].name = n
                      IN IF hits(k) = {} THEN into[n]
                         ELSE DecodeScalar(F[k].type, value(last(k)))],
           ok |-> TRUE]


-----------------------------------------------------------------------------
(* The values a facade hands to a builder as the request body. *)

NilBody == [kind |-> "nil"]

StringBody(s) == [kind |-> "string", s |-> s]

StructBody(T, v) == [type |-> T, val |-> v, kind |-> "struct"]

\* The body text the builder puts on the wire: nothing for nil, the bare
\* string for a string, the JSON document for a struct.
EncodeBody(b) ==
  CASE b.kind = "nil" -> <<>>
    [] b.kind = "string" -> << <<b.s>> >>
    [] b.kind = "struct" -> Marshal(b.type, b.val)

\* The three builders of the client.  Each yields the request it built.
NewRequest(method, urlStr, body) ==
  [method |-> method, urlStr |-> urlStr, body |-> body, builder |-> "NewRequest"]

NewShadowRequest(method, urlStr, body) ==
  [method |-> method, urlStr |-> urlStr, body |-> body, builder |-> "NewShadowRequest"]

NewUploadRequest(method, urlStr, reader, size, mediaType) ==
  [method |-> method, urlStr |-> urlStr, builder |-> "NewUploadRequest",
   reader |-> reader, size |-> size, mediaType |-> mediaType]

\* The body text a request carries on the wire.
Wire(r) ==
  IF r.builder = "NewUploadRequest" THEN r.reader.data ELSE EncodeBody(r.body)

\* Errors are message texts.
ErrBuild == <<"parse ", "url: ", "invalid">>

ErrTransport == <<"dial tcp: ", "connection refused">>

ErrAPI == <<"api error">>

ErrDecode == <<"json: ", "cannot unmarshal">>

\* A builder returns a request or fails.
BuilderOutcomes == {<<>>, <<ErrBuild>>}

\* Status codes the server answers with.
StatusCodes == {200, 204, 403}

Response(code) == [StatusCode |-> code]

\* The document of an error response.
ErrorBody == << <<Quote, "message", Quote, ":", Quote, "forbidden", Quote>> >>

\* What Do may answer to a request whose response body is one of bodies:
\* a response without error; no response and a transport error; or a
\* response together with an error, its body already handed to the
\* destination.
Answers(bodies) ==
       { [resp |-> <<Response(s)>>, err |-> <<>>, raw |-> b, delivered |-> TRUE] :
           s \in StatusCodes, b \in bodies }
  \cup { [resp |-> <<>>, err |-> <<ErrTransport>>, raw |-> <<>>, delivered |-> FALSE] }
  \cup { [resp |-> <<Response(403)>>, err |-> <<ErrAPI>>, raw |-> ErrorBody,
          delivered |-> TRUE] }

-----------------------------------------------------------------------------
(* Destination objects.  dst is "nil" (body discarded), "file" (the       *)
(* caller's file), "buffer" (a bytes.Buffer) or a struct type's name.     *)

FreeCell == [kind |-> "free"]

\* var b bytes.Buffer / new(T): the fresh destination of kind dst.
NewCell(dst) ==
  CASE dst \in {"nil", "file"} -> FreeCell
    [] dst = "buffer" -> [kind |-> "buffer", bytes |-> <<>>]
    [] OTHER -> [type |-> dst, val |-> Zero(dst), kind |-> "struct"]

\* Faulty variant of NewDest: one destination object shared by all calls,
\* as a package-level variable would be.
NewDest_Shared(c) == 1

\* The address of the destination object a call of c allocates: every call
\* has an object of its own.
NewDest(c) == c

\* Do hands the response body to the destination: copied into a buffer,
\* json-decoded into a struct.
Deliver(dst, cell, raw) ==
  CASE dst \in {"nil", "file"} -> [ok |-> TRUE, cell |-> cell]
    [] dst = "buffer" ->
         [ok |-> TRUE, cell |-> [kind |-> "buffer", bytes |-> cell.bytes \o raw]]
    [] OTHER ->
         LET u == Unmarshal(dst, raw, cell.val)
         IN [ok |-> u.ok, cell |-> [type |-> dst, val |-> u.val, kind |-> "struct"]]

NoRet == [resp |-> <<>>, err |-> <<>>, result |-> <<>>]

-----------------------------------------------------------------------------
(* The steps every facade method is made of. *)

\* The method returns r.
Finish(c, dst, r) ==
  /\ pc' = [pc EXCEPT ![c] = "done"]
  /\ ret' = [ret EXCEPT ![c] = r]
  /\ heap' = IF dst \in {"nil", "file"} THEN heap
             ELSE [heap EXCEPT ![NewDest(c)] = FreeCell]
  /\ UNCHANGED <<op, args, req, resp, err, disk, log, server, lastPut>>

\* c enters method name with arguments a; the method computes the request
\* r and calls r's builder, which returns the request or an error; on an
\* error the method returns it with nil for everything else.
Build(c, name, a, r) ==
  /\ pc[c] \in {"idle", "done"}
  /\ \E e \in BuilderOutcomes :
       /\ log' = [log EXCEPT ![c] = << [req |-> r, err |-> e, fn |-> r.builder] >>]
       /\ err' = [err EXCEPT ![c] = e]
       /\ IF e # <<>>
            THEN /\ pc' = [pc EXCEPT ![c] = "done"]
                 /\ req' = [req EXCEPT ![c] = <<>>]
                 /\ ret' = [ret EXCEPT ![c] = [resp |-> <<>>, err |-> e, result |-> <<>>]]
            ELSE /\ pc' = [pc EXCEPT ![c] = "built"]
                 /\ req' = [req EXCEPT ![c] = <<r>>]
                 /\ ret' = [ret EXCEPT ![c] = NoRet]
  /\ op' = [op EXCEPT ![c] = name]
  /\ args' = [args EXCEPT ![c] = a]
  /\ resp' = [resp EXCEPT ![c] = <<>>]
  /\ UNCHANGED <<heap, disk, server, lastPut>>

\* The method allocates its destination and calls Do(ctx, req, dst).  The
\* server's response body is one of bodies; with stores, the stub server
\* keeps the request body of a successful call.
Exec(c, name, dst, bodies, stores) ==
  /\ pc[c] = "built"
  /\ op[c] = name
  /\ \E ans \in Answers(bodies) :
       LET r == req[c][1]
           d == IF ans.delivered THEN Deliver(dst, NewCell(dst), ans.raw)
                ELSE [ok |-> TRUE, cell |-> NewCell(dst)]
           e == IF ans.err = <<>> /\ ~d.ok THEN <<ErrDecode>> ELSE ans.err
       IN /\ heap' = IF dst \in {"nil", "file"} THEN heap
                     ELSE [heap EXCEPT ![NewDest(c)] = d.cell]
          /\ disk' = IF dst = "file" /\ ans.delivered
                     THEN [disk EXCEPT ![c] = ans.raw] ELSE disk
          /\ resp' = [resp EXCEPT ![c] = ans.resp]
          /\ err' = [err EXCEPT ![c] = e]
          /\ log' = [log EXCEPT ![c] = Append(@,
                       [req |-> r, resp |-> ans.resp, err |-> e, raw |-> ans.raw,
                        delivered |-> ans.delivered, dst |-> dst, fn |-> "Do"])]
          /\ server' = IF stores /\ e = <<>> THEN Wire(r) ELSE server
          /\ lastPut' = IF stores /\ e = <<>> THEN <<r.body.val>> ELSE lastPut
  /\ pc' = [pc EXCEPT ![c] = "executed"]
  /\ UNCHANGED <<op, args, req, ret>>

\* Faulty variant of ReturnResp: the error of Do is dropped.
ReturnResp_SwallowsErr(c, name) ==
  /\ pc[c] = "executed"
  /\ op[c] = name
  /\ Finish(c, "nil", [resp |-> resp[c], err |-> <<>>, result |-> <<>>])

\* if err != nil { return resp, err }; return resp, nil
ReturnResp(c, name) ==
  /\ pc[c] = "executed"
  /\ op[c] = name
  /\ Finish(c, "nil",
            IF err[c] # <<>>
            THEN [resp |-> resp[c], err |-> err[c], result |-> <<>>]
            ELSE [resp |-> resp[c], err |-> <<>>, result |-> <<>>])

\* Faulty variant of Return204: every 2xx status passes.
Return204_Accepts2xx(c, name, prefix) ==
  /\ pc[c] = "executed"
  /\ op[c] = name
  /\ Finish(c, "nil",
            IF err[c] # <<>>
            THEN [resp |-> resp[c], err |-> err[c], result |-> <<>>]
            ELSE IF resp[c][1].StatusCode < 200 \/ resp[c][1].StatusCode > 299
            THEN [resp |-> resp[c], err |-> << <<prefix>> \o Itoa(resp[c][1].StatusCode) >>,
                  result |-> <<>>]
            ELSE [resp |-> resp[c], err |-> <<>>, result |-> <<>>])

\* if err != nil { return resp, err }
\* if resp.StatusCode != 204 { return resp, errors.New(prefix + strconv.Itoa(resp.StatusCode)) }
\* return resp, nil
Return204(c, name, prefix) ==
  /\ pc[c] = "executed"
  /\ op[c] = name
  /\ Finish(c, "nil",
            IF err[c] # <<>>
            THEN [resp |-> resp[c], err |-> err[c], result |-> <<>>]
            ELSE IF resp[c][1].StatusCode # 204
            THEN [resp |-> resp[c], err |-> << <<prefix>> \o Itoa(resp[c][1].StatusCode) >>,
                  result |-> <<>>]
            ELSE [resp |-> resp[c], err |-> <<>>, result |-> <<>>])

\* if err != nil { return nil, resp, err }; return v, resp, nil
\* where v points to the struct Do decoded into.
ReturnStruct(c, name, T) ==
  /\ pc[c] = "executed"
  /\ op[c] = name
  /\ Finish(c, T,
            IF err[c] # <<>>
            THEN [resp |-> resp[c], err |-> err[c], result |-> <<>>]
            ELSE [resp |-> resp[c], err |-> <<>>, result |-> <<heap[NewDest(c)].val>>])

\* if err != nil { return "", resp, err }; return b.String(), resp, nil
ReturnString(c, name) ==
  /\ pc[c] = "executed"
  /\ op[c] = name
  /\ Finish(c, "buffer",
            IF err[c] # <<>>
            THEN [resp |-> resp[c], err |-> err[c], result |-> <<>>]
            ELSE [resp |-> resp[c], err |-> <<>>, result |-> heap[NewDest(c)].bytes])


-----------------------------------------------------------------------------
(* Arguments the callers pass and documents the server answers with. *)

Passwords == {"p1", "p2"}

Descriptions == {"x", "y"}

Roles == {"master", "shadow", "standby"}

Hosts == {"", "h"}

MasterOps == {"SWITCH", "FORCE_SWITCH"}

ShadowOps == {"CONNECT", "DISCONNECT"}

Users == {"admin"}

ShadowSettings ==
  { [masterHost |-> "m", masterPort |-> "8443", ownHost |-> "o",
     checkIntervalInSeconds |-> 30, takeoverDelayInSeconds |-> 0,
     connectTimeoutInMillis |-> 1000, requestTimeoutInMillis |-> 12000],
    [masterHost |-> "", masterPort |-> "", ownHost |-> "",
     checkIntervalInSeconds |-> 0, takeoverDelayInSeconds |-> 7,
     connectTimeoutInMillis |-> 0, requestTimeoutInMillis |-> 60000] }

\* A file handle: its name (path tokens), what Stat reports, its contents.
Files ==
  { [name |-> <<"backup", ".", "zip">>, size |-> 2, data |-> << <<"PK", "cfg">> >>,
     stat |-> "regular"],
    [name |-> <<"conf", ".", "d", "/", "backup">>, size |-> 1, data |-> << <<"cfg">> >>,
     stat |-> "regular"],
    [name |-> <<"conf", ".", "d">>, size |-> 0, data |-> <<>>, stat |-> "dir"],
    [name |-> <<"gone">>, size |-> 0, data |-> <<>>, stat |-> "error"] }

NoArgs == [none |-> TRUE]

NoBodies == {<<>>}

BackupBodies == { << <<"PK", "backup">> >> }

RoleBodies == { << <<"master">> >>, << <<Quote, "shadow", Quote>> >> }

CommonBodies ==
  { Marshal("CommonProperties", [HaRole |-> "master", Description |-> "x"]),
    << <<Quote, "description", Quote, ":", Quote, "y", Quote>> >> }

VersionBodies ==
  { Marshal("Version", [Version |-> "2.12.0"]), << <<"<html>">> >> }

MasterStateBodies ==
  { Marshal("MasterState", [State |-> "ALONE", ShadowHost |-> ""]),
    Marshal("MasterState", [State |-> "CONNECTED", ShadowHost |-> "h"]) }

ShadowConfigBodies ==
  { Marshal("ShadowConfiguration",
      [MasterHost |-> "m", MasterPort |-> "8443", CheckIntervalInSeconds |-> 30,
       TakeoverDelayInSeconds |-> 0, OwnHost |-> "o", ConnectTimeoutInMillis |-> 1000,
       RequestTimeoutInMillis |-> 12000, LinksSelfHref |-> "/config",
       LinksStateHref |-> "/state"]),
    << <<Quote, "checkIntervalInSeconds", Quote, ":", Quote, "30", Quote>> >> }

ShadowStateBodies ==
  { Marshal("ShadowState", [State |-> "DISCONNECTED", OwnHosts |-> "o",
                            StateMessage |-> "", MasterVersions |-> ""]),
    Marshal("ShadowState", [State |-> "CONNECTED", OwnHosts |-> "o",
                            StateMessage |-> "ok", MasterVersions |-> "2.13.0"]) }

\* The stub server echoes the master configuration a PUT carries.
EchoBodies(c) == IF req[c] = <<>> THEN {} ELSE {Wire(req[c][1])}

\* The server answers a new description with the properties as updated.
UpdatedBodies(c) ==
  IF req[c] = <<>> THEN {}
  ELSE { Marshal("CommonProperties",
                 [HaRole |-> "master", Description |-> req[c][1].body.val.Description]) }

-----------------------------------------------------------------------------
(* BackupService *)

ErrStat == <<"stat ", "gone", ": file already closed">>

ErrIsDir == <<"the asset to upload can't be a directory">>

\* filepath.Ext: the suffix from the last "." of the path's last element.
RECURSIVE ExtFrom(_, _)
ExtFrom(path, i) ==
  IF i < 1 \/ path[i] = "/" THEN <<>>
  ELSE IF path[i] = "." THEN SubSeq(path, i, Len(path))
  ELSE ExtFrom(path, i - 1)

Ext(path) == ExtFrom(path, Len(path))

\* mime.TypeByExtension
TypeByExtension(ext) ==
  CASE ext = <<".", "zip">> -> "application/zip"
    [] ext = <<".", "json">> -> "application/json"
    [] OTHER -> ""

\* The method returns (nil, e) before calling any collaborator.
FailEarly(c, name, a, e) ==
  /\ pc[c] \in {"idle", "done"}
  /\ pc' = [pc EXCEPT ![c] = "done"]
  /\ op' = [op EXCEPT ![c] = name]
  /\ args' = [args EXCEPT ![c] = a]
  /\ req' = [req EXCEPT ![c] = <<>>]
  /\ resp' = [resp EXCEPT ![c] = <<>>]
  /\ err' = [err EXCEPT ![c] = e]
  /\ log' = [log EXCEPT ![c] = <<>>]
  /\ ret' = [ret EXCEPT ![c] = [resp |-> <<>>, err |-> e, result |-> <<>>]]
  /\ UNCHANGED <<heap, disk, server, lastPut>>

CreateBackup(c) ==
  \/ \E password \in Passwords :
       Build(c, "CreateBackup", [password |-> password],
             NewRequest("POST", "api/v1/configuration/backup",
                        StructBody("struct{Password}", [Password |-> password])))
  \/ Exec(c, "CreateBackup", "file", BackupBodies, FALSE)
  \/ ReturnResp(c, "CreateBackup")

\* Faulty variant of RestoreBackup: a directory is not refused.
RestoreBackup_NoDirCheck(c) ==
  \/ \E password \in Passwords, file \in Files :
       LET a == [password |-> password, file |-> file]
       IN IF file.stat = "error" THEN FailEarly(c, "RestoreBackup", a, <<ErrStat>>)
          ELSE Build(c, "RestoreBackup", a,
                     NewUploadRequest("PUT", "api/v1/configuration/backup", file,
                                      file.size, TypeByExtension(Ext(file.name))))
  \/ Exec(c, "RestoreBackup", "nil", NoBodies, FALSE)
  \/ Return204(c, "RestoreBackup", "backup restore failed with status code ")

\* Faulty variant of RestoreBackup: the password travels with the upload.
RestoreBackup_SendsPassword(c) ==
  \/ \E password \in Passwords, file \in Files :
       LET a == [password |-> password, file |-> file]
       IN IF file.stat = "error" THEN FailEarly(c, "RestoreBackup", a, <<ErrStat>>)
          ELSE IF file.stat = "dir" THEN FailEarly(c, "RestoreBackup", a, <<ErrIsDir>>)
          ELSE Build(c, "RestoreBackup", a,
                     [NewUploadRequest("PUT", "api/v1/configuration/backup", file,
                                       file.size, TypeByExtension(Ext(file.name)))
                        EXCEPT !.urlStr = @ \o "?password=" \o password])
  \/ Exec(c, "RestoreBackup", "nil", NoBodies, FALSE)
  \/ Return204(c, "RestoreBackup", "backup restore failed with status code ")

RestoreBackup(c) ==
  \/ \E password \in Passwords, file \in Files :
       LET a == [password |-> password, file |-> file]
       IN IF file.stat = "error" THEN FailEarly(c, "RestoreBackup", a, <<ErrStat>>)
          ELSE IF file.stat = "dir" THEN FailEarly(c, "RestoreBackup", a, <<ErrIsDir>>)
          ELSE Build(c, "RestoreBackup", a,
                     NewUploadRequest("PUT", "api/v1/configuration/backup", file,
                                      file.size, TypeByExtension(Ext(file.name))))
  \/ Exec(c, "RestoreBackup", "nil", NoBodies, FALSE)
  \/ Return204(c, "RestoreBackup", "backup restore failed with status code ")

-----------------------------------------------------------------------------
(* CommonService *)

GetCommonProperties(c) ==
  \/ Build(c, "GetCommonProperties", NoArgs,
           NewRequest("GET", "api/v1/configuration/connector", NilBody))
  \/ Exec(c, "GetCommonProperties", "CommonProperties", CommonBodies, FALSE)
  \/ ReturnStruct(c, "GetCommonProperties", "CommonProperties")

GetVersion(c) ==
  \/ Build(c, "GetVersion", NoArgs,
           NewRequest("GET", "api/v1/connector/version", NilBody))
  \/ Exec(c, "GetVersion", "Version", VersionBodies, FALSE)
  \/ ReturnStruct(c, "GetVersion", "Version")

SetDescription(c) ==
  \/ \E description \in Descriptions :
       Build(c, "SetDescription", [description |-> description],
             NewRequest("PUT", "api/v1/configuration/connector",
                        StructBody("struct{Description}", [Description |-> description])))
  \/ Exec(c, "SetDescription", "CommonProperties", UpdatedBodies(c), FALSE)
  \/ ReturnStruct(c, "SetDescription", "CommonProperties")


-----------------------------------------------------------------------------
(* HAService *)

GetHASettings(c) ==
  \/ Build(c, "GetHASettings", NoArgs,
           NewRequest("GET", "api/v1/configuration/connector/haRole", NilBody))
  \/ Exec(c, "GetHASettings", "buffer", RoleBodies, FALSE)
  \/ ReturnString(c, "GetHASettings")

\* Faulty variant of SetHASettings: an unknown role is replaced.
SetHASettings_NormalisesRole(c) ==
  \/ \E role \in Roles :
       Build(c, "SetHASettings", [role |-> role],
             NewRequest("POST", "api/v1/configuration/connector/haRole",
                        StringBody(IF role \in {"master", "shadow"} THEN role ELSE "master")))
  \/ Exec(c, "SetHASettings", "nil", NoBodies, FALSE)
  \/ ReturnResp(c, "SetHASettings")

SetHASettings(c) ==
  \/ \E role \in Roles :
       Build(c, "SetHASettings", [role |-> role],
             NewRequest("POST", "api/v1/configuration/connector/haRole",
                        StringBody(role)))
  \/ Exec(c, "SetHASettings", "nil", NoBodies, FALSE)
  \/ ReturnResp(c, "SetHASettings")

GetMasterConfiguration(c) ==
  \/ Build(c, "GetMasterConfiguration", NoArgs,
           NewRequest("GET", "api/v1/configuration/connector/ha/master/config", NilBody))
  \/ Exec(c, "GetMasterConfiguration", "MasterConfiguration", {server}, FALSE)
  \/ ReturnStruct(c, "GetMasterConfiguration", "MasterConfiguration")

\* Faulty variant of SetMasterConfiguration: haEnabled is not copied into the body.
SetMasterConfiguration_DropsFlag(c) ==
  \/ \E haEnabled \in BOOLEAN, allowedShadowHost \in Hosts :
       Build(c, "SetMasterConfiguration",
             [haEnabled |-> haEnabled, allowedShadowHost |-> allowedShadowHost],
             NewRequest("PUT", "api/v1/configuration/connector/ha/master/config",
                        StructBody("MasterConfiguration",
                                   [HAEnabled |-> FALSE,
                                    AllowedShadowHost |-> allowedShadowHost])))
  \/ Exec(c, "SetMasterConfiguration", "MasterConfiguration", EchoBodies(c), TRUE)
  \/ ReturnStruct(c, "SetMasterConfiguration", "MasterConfiguration")

SetMasterConfiguration(c) ==
  \/ \E haEnabled \in BOOLEAN, allowedShadowHost \in Hosts :
       Build(c, "SetMasterConfiguration",
             [haEnabled |-> haEnabled, allowedShadowHost |-> allowedShadowHost],
             NewRequest("PUT", "api/v1/configuration/connector/ha/master/config",
                        StructBody("MasterConfiguration",
                                   [HAEnabled |-> haEnabled,
                                    AllowedShadowHost |-> allowedShadowHost])))
  \/ Exec(c, "SetMasterConfiguration", "MasterConfiguration", EchoBodies(c), TRUE)
  \/ ReturnStruct(c, "SetMasterConfiguration", "MasterConfiguration")

GetMasterState(c) ==
  \/ Build(c, "GetMasterState", NoArgs,
           NewRequest("GET", "api/v1/configuration/connector/ha/master/state", NilBody))
  \/ Exec(c, "GetMasterState", "MasterState", MasterStateBodies, FALSE)
  \/ ReturnStruct(c, "GetMasterState", "MasterState")

\* Faulty variant of SetMasterState: PUT instead of POST.
SetMasterState_WrongMethod(c) ==
  \/ \E o \in MasterOps :
       Build(c, "SetMasterState", [op |-> o],
             NewRequest("PUT", "api/v1/configuration/connector/ha/master/state",
                        StructBody("struct{Op}", [Op |-> o])))
  \/ Exec(c, "SetMasterState", "MasterState", MasterStateBodies, FALSE)
  \/ ReturnStruct(c, "SetMasterState", "MasterState")

SetMasterState(c) ==
  \/ \E o \in MasterOps :
       Build(c, "SetMasterState", [op |-> o],
             NewRequest("POST", "api/v1/configuration/connector/ha/master/state",
                        StructBody("struct{Op}", [Op |-> o])))
  \/ Exec(c, "SetMasterState", "MasterState", MasterStateBodies, FALSE)
  \/ ReturnStruct(c, "SetMasterState", "MasterState")

\* Faulty variant of ResetMaster: a status other than 204 is tried again.
ResetMaster_Retries(c) ==
  \/ Build(c, "ResetMaster", NoArgs,
           NewRequest("DELETE", "api/v1/configuration/connector/ha/master/state", NilBody))
  \/ Exec(c, "ResetMaster", "nil", NoBodies, FALSE)
  \/ Return204(c, "ResetMaster", "master reset failed with status code ")
  \/ /\ pc[c] = "executed"
     /\ op[c] = "ResetMaster"
     /\ err[c] = <<>>
     /\ resp[c][1].StatusCode # 204
     /\ pc' = [pc EXCEPT ![c] = "built"]
     /\ UNCHANGED <<op, args, req, resp, err, heap, disk, ret, log, server, lastPut>>

ResetMaster(c) ==
  \/ Build(c, "ResetMaster", NoArgs,
           NewRequest("DELETE", "api/v1/configuration/connector/ha/master/state", NilBody))
  \/ Exec(c, "ResetMaster", "nil", NoBodies, FALSE)
  \/ Return204(c, "ResetMaster", "master reset failed with status code ")

GetShadowConfiguration(c) ==
  \/ Build(c, "GetShadowConfiguration", NoArgs,
           NewShadowRequest("GET", "api/v1/configuration/connector/ha/shadow/config", NilBody))
  \/ Exec(c, "GetShadowConfiguration", "ShadowConfiguration", ShadowConfigBodies, FALSE)
  \/ ReturnStruct(c, "GetShadowConfiguration", "ShadowConfiguration")

SetShadowConfiguration(c) ==
  \/ \E a \in ShadowSettings :
       Build(c, "SetShadowConfiguration", a,
             NewShadowRequest("PUT", "api/v1/configuration/connector/ha/shadow/config",
                StructBody("ShadowConfiguration",
                  [MasterHost |-> a.masterHost,
                   MasterPort |-> a.masterPort,
                   CheckIntervalInSeconds |-> a.checkIntervalInSeconds,
                   TakeoverDelayInSeconds |-> a.takeoverDelayInSeconds,
                   OwnHost |-> a.ownHost,
                   ConnectTimeoutInMillis |-> a.connectTimeoutInMillis,
                   RequestTimeoutInMillis |-> a.requestTimeoutInMillis,
                   LinksSelfHref |-> "",
                   LinksStateHref |-> ""])))
  \/ Exec(c, "SetShadowConfiguration", "ShadowConfiguration", ShadowConfigBodies, FALSE)
  \/ ReturnStruct(c, "SetShadowConfiguration", "ShadowConfiguration")

\* Faulty variant of GetShawodState: built by the default builder.
GetShawodState_DefaultBuilder(c) ==
  \/ \E description \in Descriptions :
       Build(c, "GetShawodState", [description |-> description],
             NewRequest("GET", "api/v1/configuration/connector/ha/shadow/state", NilBody))
  \/ Exec(c, "GetShawodState", "ShadowState", ShadowStateBodies, FALSE)
  \/ ReturnStruct(c, "GetShawodState", "ShadowState")

GetShawodState(c) ==
  \/ \E description \in Descriptions :
       Build(c, "GetShawodState", [description |-> description],
             NewShadowRequest("GET", "api/v1/configuration/connector/ha/shadow/state", NilBody))
  \/ Exec(c, "GetShawodState", "ShadowState", ShadowStateBodies, FALSE)
  \/ ReturnStruct(c, "GetShawodState", "ShadowState")

ChangeShadowState(c) ==
  \/ \E o \in ShadowOps, user \in Users, password \in Passwords :
       Build(c, "ChangeShadowState", [op |-> o, password |-> password, user |-> user],
             NewShadowRequest("POST", "api/v1/configuration/connector/ha/shadow/state",
                StructBody("struct{Op,User,Password}",
                           [Password |-> password, Op |-> o, User |-> user])))
  \/ Exec(c, "ChangeShadowState", "nil", NoBodies, FALSE)
  \/ Return204(c, "ChangeShadowState", "shadow reset failed with status code ")

ResetShadow(c) ==
  \/ Build(c, "ResetShadow", NoArgs,
           NewShadowRequest("DELETE", "api/v1/configuration/connector/ha/shadow/state", NilBody))
  \/ Exec(c, "ResetShadow", "nil", NoBodies, FALSE)
  \/ Return204(c, "ResetShadow", "shadow reset failed with status code ")

-----------------------------------------------------------------------------
(* Specifications *)

Init ==
  /\ pc = [c \in Callers |-> "idle"]
  /\ op = [c \in Callers |-> ""]
  /\ args = [c \in Callers |-> NoArgs]
  /\ req = [c \in Callers |-> <<>>]
  /\ resp = [c \in Callers |-> <<>>]
  /\ err = [c \in Callers |-> <<>>]
  /\ heap = [a \in Callers |-> FreeCell]
  /\ disk = [c \in Callers |-> <<>>]
  /\ ret = [c \in Callers |-> NoRet]
  /\ log = [c \in Callers |-> <<>>]
  /\ server = Marshal("MasterConfiguration", Zero("MasterConfiguration"))
  /\ lastPut = <<>>

\* One caller, calling any method of any facade, one call after the other.
Next ==
  \E c \in SeqCallers :
    \/ CreateBackup(c)
    \/ RestoreBackup(c)
    \/ GetCommonProperties(c)
    \/ GetVersion(c)
    \/ SetDescription(c)
    \/ GetHASettings(c)
    \/ SetHASettings(c)
    \/ GetMasterConfiguration(c)
    \/ SetMasterConfiguration(c)
    \/ GetMasterState(c)
    \/ SetMasterState(c)
    \/ ResetMaster(c)
    \/ GetShadowConfiguration(c)
    \/ SetShadowConfiguration(c)
    \/ GetShawodState(c)
    \/ ChangeShadowState(c)
    \/ ResetShadow(c)

Spec == Init /\ [][Next]_vars

\* Several callers, each with one call on the HA or the common facade, in
\* flight at once; their steps interleave at every collaborator call.
NextConc ==
  \E c \in Callers :
    /\ pc[c] # "done"
    /\ \/ GetMasterState(c)
       \/ SetMasterState(c)
       \/ SetDescription(c)

SpecConc == Init /\ [][NextConc]_vars

\* Several callers restoring backups.
NextRestore == \E c \in Callers : RestoreBackup(c)

SpecRestore == Init /\ [][NextRestore]_vars


-----------------------------------------------------------------------------
(* Properties *)

Builders == {"NewRequest", "NewShadowRequest", "NewUploadRequest"}

\* c's call went through builder and Do.
RoundTrip(c) == Len(log[c]) = 2

\* c's call has returned after a builder and a Do that both succeeded.
Succeeded(c) ==
  /\ pc[c] = "done"
  /\ RoundTrip(c)
  /\ log[c][1].err = <<>>
  /\ log[c][2].err = <<>>

FixedStatusOps == {"RestoreBackup", "ResetMaster", "ResetShadow", "ChangeShadowState"}

\* The decimal text of the status codes the server answers with.
CodeText(code) ==
  CASE code = 200 -> <<"2", "0", "0">>
    [] code = 204 -> <<"2", "0", "4">>
    [] code = 403 -> <<"4", "0", "3">>

\* C1: a fixed-status operation whose builder and Do both succeeded returns
\* Do's response, without error when the status is 204, and otherwise with
\* an error whose message contains the decimal status code.
C1_FixedStatus ==
  \A c \in Callers :
    (Succeeded(c) /\ op[c] \in FixedStatusOps) =>
      LET code == log[c][2].resp[1].StatusCode
      IN /\ ret[c].resp # <<>>
         /\ ret[c].resp = log[c][2].resp
         /\ IF code = 204 THEN ret[c].err = <<>>
            ELSE /\ ret[c].err # <<>>
                 /\ Contains(ret[c].err[1], CodeText(code))

C1_Witness ==
  \E c \in Callers :
    /\ Succeeded(c)
    /\ op[c] = "RestoreBackup"
    /\ log[c][2].resp[1].StatusCode = 200
    /\ ret[c].err # <<>>

\* C2: RestoreBackup on a directory, or on a handle whose Stat fails, has
\* returned an error and no response, and no collaborator was ever called.
C2_RestoreDirectory ==
  \A c \in Callers :
    (op[c] = "RestoreBackup" /\ args[c].file.stat \in {"dir", "error"}) =>
      /\ pc[c] = "done"
      /\ log[c] = <<>>
      /\ req[c] = <<>>
      /\ ret[c].resp = <<>>
      /\ ret[c].err # <<>>

C2_Witness ==
  \E c \in Callers :
    /\ op[c] = "RestoreBackup"
    /\ args[c].file.stat = "dir"
    /\ pc[c] = "done"
    /\ ret[c].err = <<ErrIsDir>>

ShadowPathOps ==
  {"GetShadowConfiguration", "SetShadowConfiguration", "GetShawodState",
   "ChangeShadowState", "ResetShadow"}

\* C3: the only builder a shadow-path operation calls is NewShadowRequest,
\* and the request it executes is the one that builder returned.
C3_ShadowBuilder ==
  \A c \in Callers :
    op[c] \in ShadowPathOps =>
      \A i \in 1..Len(log[c]) :
        /\ log[c][i].fn \in {"NewShadowRequest", "Do"}
        /\ log[c][i].req.builder = "NewShadowRequest"

C3_Witness ==
  \E c \in Callers :
    /\ op[c] = "GetShawodState"
    /\ Succeeded(c)
    /\ log[c][1].fn = "NewShadowRequest"

\* C4: after a builder error the operation has returned that error with
\* nil for everything else and Do was not called; after an error of Do it
\* returns that error, Do's response and a nil result.
C4_ErrorsPropagate ==
  \A c \in Callers :
    /\ (Len(log[c]) >= 1 /\ log[c][1].err # <<>>) =>
         /\ Len(log[c]) = 1
         /\ pc[c] = "done"
         /\ ret[c] = [resp |-> <<>>, err |-> log[c][1].err, result |-> <<>>]
    /\ (pc[c] = "done" /\ RoundTrip(c) /\ log[c][2].err # <<>>) =>
         ret[c] = [resp |-> log[c][2].resp, err |-> log[c][2].err, result |-> <<>>]

C4_Witness ==
  \E c \in Callers :
    /\ op[c] = "SetHASettings"
    /\ pc[c] = "done"
    /\ RoundTrip(c)
    /\ log[c][2].err = <<ErrAPI>>
    /\ ret[c].resp # <<>>

\* C5: one invocation calls a builder at most once and Do at most once, the
\* builder first, and Do only with the request the builder returned.
C5_SingleRoundTrip ==
  \A c \in Callers :
    /\ Len(log[c]) <= 2
    /\ Len(log[c]) >= 1 => log[c][1].fn \in Builders
    /\ Len(log[c]) = 2 =>
         /\ log[c][2].fn = "Do"
         /\ log[c][1].err = <<>>
         /\ log[c][2].req = log[c][1].req

C5_Witness ==
  \E c \in Callers :
    /\ Succeeded(c)
    /\ op[c] = "ResetMaster"
    /\ log[c][2].resp[1].StatusCode = 403
    /\ ret[c].err # <<>>

\* The interface table: method and path of every operation.
Route(name) ==
  CASE name = "CreateBackup" -> <<"POST", "api/v1/configuration/backup">>
    [] name = "RestoreBackup" -> <<"PUT", "api/v1/configuration/backup">>
    [] name = "GetCommonProperties" -> <<"GET", "api/v1/configuration/connector">>
    [] name = "SetDescription" -> <<"PUT", "api/v1/configuration/connector">>
    [] name = "GetVersion" -> <<"GET", "api/v1/connector/version">>
    [] name = "GetHASettings" -> <<"GET", "api/v1/configuration/connector/haRole">>
    [] name = "SetHASettings" -> <<"POST", "api/v1/configuration/connector/haRole">>
    [] name = "GetMasterConfiguration" ->
         <<"GET", "api/v1/configuration/connector/ha/master/config">>
    [] name = "SetMasterConfiguration" ->
         <<"PUT", "api/v1/configuration/connector/ha/master/config">>
    [] name = "GetMasterState" -> <<"GET", "api/v1/configuration/connector/ha/master/state">>
    [] name = "SetMasterState" -> <<"POST", "api/v1/configuration/connector/ha/master/state">>
    [] name = "ResetMaster" -> <<"DELETE", "api/v1/configuration/connector/ha/master/state">>
    [] name = "GetShadowConfiguration" ->
         <<"GET", "api/v1/configuration/connector/ha/shadow/config">>
    [] name = "SetShadowConfiguration" ->
         <<"PUT", "api/v1/configuration/connector/ha/shadow/config">>
    [] name = "GetShawodState" -> <<"GET", "api/v1/configuration/connector/ha/shadow/state">>
    [] name = "ChangeShadowState" ->
         <<"POST", "api/v1/configuration/connector/ha/shadow/state">>
    [] name = "ResetShadow" -> <<"DELETE", "api/v1/configuration/connector/ha/shadow/state">>

\* C6: whatever its arguments, an operation asks its builder for, and
\* executes, a request with the method and path of the interface table.
C6_MethodAndPath ==
  \A c \in Callers :
    \A i \in 1..Len(log[c]) :
      /\ log[c][i].req.method = Route(op[c])[1]
      /\ log[c][i].req.urlStr = Route(op[c])[2]

C6_Witness ==
  \E c \in Callers :
    /\ op[c] = "SetMasterState"
    /\ args[c].op = "FORCE_SWITCH"
    /\ Succeeded(c)

\* What the collaborators answered to c's calls, without the requests.
Outcomes(c) ==
  [i \in 1..Len(log[c]) |->
     IF i = 1 THEN <<log[c][1].err>>
     ELSE <<log[c][2].resp, log[c][2].err, log[c][2].raw>>]

C8_RawRole ==
  \A c \in Callers :
    /\ (op[c] = "SetHASettings" /\ Len(log[c]) >= 1) =>
         /\ log[c][1].req.body = [kind |-> "string", s |-> args[c].role]
         /\ Wire(log[c][1].req) = << <<args[c].role>> >>
    /\ (op[c] = "GetHASettings" /\ Succeeded(c)) =>
         /\ ret[c].result = log[c][2].raw
         /\ ret[c].err = <<>>

C8_Witness ==
  \E c \in Callers :
    /\ op[c] = "GetHASettings"
    /\ Succeeded(c)
    /\ ret[c].result = << <<Quote, "shadow", Quote>> >>

\* The JSON document of a master configuration.
MasterConfigText(haEnabled, host) ==
  << <<Quote, "haEnabled", Quote, ":", IF haEnabled THEN "true" ELSE "false">>,
     <<Quote, "allowedShadowHost", Quote, ":", Quote, host, Quote>> >>

\* C9: against the stub server that stores and echoes the PUT body, a
\* successful SetMasterConfiguration(haEnabled, h) sends a document carrying
\* exactly these two values and returns them, and a successful
\* GetMasterConfiguration returns the values of the last configuration set.
C9_RoundTrip ==
  \A c \in Callers :
    /\ (op[c] = "SetMasterConfiguration" /\ Succeeded(c)) =>
         LET v == [HAEnabled |-> args[c].haEnabled,
                   AllowedShadowHost |-> args[c].allowedShadowHost]
         IN /\ Wire(log[c][2].req) =
                 MasterConfigText(args[c].haEnabled, args[c].allowedShadowHost)
            /\ ret[c].result = <<v>>
            /\ lastPut = <<v>>
    /\ (op[c] = "GetMasterConfiguration" /\ Succeeded(c) /\ lastPut # <<>>) =>
         ret[c].result = lastPut

C9_Witness ==
  \E c \in Callers :
    /\ op[c] = "GetMasterConfiguration"
    /\ Succeeded(c)
    /\ lastPut = << [HAEnabled |-> TRUE, AllowedShadowHost |-> "h"] >>
    /\ ret[c].result = lastPut

\* The struct type an operation decodes its response into.
ResultType(name) ==
  CASE name \in {"GetMasterState", "SetMasterState"} -> "MasterState"
    [] name = "SetDescription" -> "CommonProperties"

\* The body an operation sends, from its arguments.
OwnBody(name, a) ==
  CASE name = "GetMasterState" -> NilBody
    [] name = "SetMasterState" -> StructBody("struct{Op}", [Op |-> a.op])
    [] name = "SetDescription" ->
         StructBody("struct{Description}", [Description |-> a.description])

\* What a call returns when it runs alone, from the collaborator's answers
\* to its own calls.
Alone(name, lg) ==
  IF lg[1].err # <<>> THEN [resp |-> <<>>, err |-> lg[1].err, result |-> <<>>]
  ELSE IF lg[2].err # <<>> THEN [resp |-> lg[2].resp, err |-> lg[2].err, result |-> <<>>]
  ELSE [resp |-> lg[2].resp,
        err |-> <<>>, result |-> << Unmarshal(ResultType(name), lg[2].raw, Zero(ResultType(name))).val >>]

\* C10: with several calls in flight, every call executes the request made
\* from its own arguments and returns what it would return alone.
C10_NoInterference ==
  \A c \in Callers :
    /\ \A i \in 1..Len(log[c]) : log[c][i].req.body = OwnBody(op[c], args[c])
    /\ pc[c] = "done" => ret[c] = Alone(op[c], log[c])

C10_Witness ==
  \E c1, c2 \in Callers :
    /\ Succeeded(c1)
    /\ op[c1] = "SetMasterState"
    /\ pc[c2] = "executed"
    /\ op[c2] = "GetMasterState"
    /\ log[c2][2].err = <<>>
    /\ log[c2][2].raw # log[c1][2].raw

====
